---- MODULE Spec2Model ----
(***************************************************************************)
(* The status-notice engine of azael-site: the useStatusAlert composable   *)
(* (src/unnamed/part_001) and the aggregated StatusAlert banner component  *)
(* (src/src/components/SiteCard.vue, lines 626-1111) that consumes it.     *)
(*                                                                         *)
(* Text is modelled as a sequence of lexemes (strings): "<!--", "-->",     *)
(* "\n", " ", ",", the key lexemes "start:", "end:", "expectedDown:",      *)
(* "expectedDegraded:", words, and date lexemes "T0", "T1", ... where Tn   *)
(* stands for a date-time string that the Date constructor parses to the   *)
(* instant n.  Instants are integers.                                      *)
(***************************************************************************)
EXTENDS Integers, Sequences, FiniteSets, TLC

VARIABLES
    storage,            \* sessionStorage['dismissedAlerts'], the decoded JSON list
    issues,             \* ref issues: the fetched list of notices
    isLoading,          \* ref isLoading
    error,              \* ref error ("null" or a message)
    isDismissed,        \* ref isDismissed
    inflight,           \* number of fetchStatusIssues calls awaiting their response
    fetches,            \* fetchStatusIssues calls started this session
    mounted,            \* "no" (constructed), "yes" (mounted), "gone" (unmounted)
    now,                \* the wall clock, what new Date() returns
    isVisible,          \* ref isVisible of the banner
    mountTimer,         \* the 1500 ms timer of onMounted is pending
    showTimers,         \* pending 1500 ms timers of checkAndShowAlert
    dismissTimers,      \* pending 400 ms timers of handleDismiss
    computed,           \* the caches of the computed refs activeIssue,
                        \* allStatusIssues and isMaintenanceUpcoming
    returned,           \* history: ids whose dismissAlert call returned, this session
    repeats,            \* history: ids passed to dismissAlert when already stored
    atLoad,             \* history: the ids stored when the page was last loaded
    failed,             \* history: ids whose setItem call failed, this page load
    threw,              \* history: ids whose dismissAlert call threw, this page load
    lastEvent           \* history: the last thing fetchStatusIssues did on this page:
                        \* "none", "start", "items" or "no items" (the payload it
                        \* accepted), or the kind of its failure

vars == <<storage, issues, isLoading, error, isDismissed, inflight, fetches,
          mounted, now, isVisible, mountTimer, showTimers, dismissTimers,
          computed, returned, repeats,
          atLoad, failed, threw, lastEvent>>

----------------------------------------------------------------------------
(* Bounds of the model.                                                    *)

MaxTime == 2
MaxFetches == 2
MaxTimers == 1
MaxLen == 3

----------------------------------------------------------------------------
(* Text helpers.                                                           *)

\* What the regular-expression class \s matches.
IsSpace(tok) == tok \in {" ", "\n"}

\* String.prototype.toLowerCase on the label names that occur.
ToLowerCase(name) ==
    CASE name = "Status" -> "status"
      [] name = "Maintenance" -> "maintenance"
      [] name = "MAINTENANCE" -> "maintenance"
      [] name = "Bug" -> "bug"
      [] name = "Help Wanted" -> "help wanted"
      [] name = "Core-API" -> "core-api"
      [] OTHER -> name

\* Array.prototype.includes
Includes(list, x) == \E i \in 1..Len(list) : list[i] = x

\* s with its leading \s lexemes removed
RECURSIVE TrimStart(_)
TrimStart(s) ==
    IF s # <<>> /\ IsSpace(Head(s)) THEN TrimStart(Tail(s)) ELSE s

\* s with its trailing \s lexemes removed
RECURSIVE TrimEnd(_)
TrimEnd(s) ==
    IF s # <<>> /\ IsSpace(s[Len(s)]) THEN TrimEnd(SubSeq(s, 1, Len(s) - 1)) ELSE s

\* String.prototype.trim
Trim(s) == TrimEnd(TrimStart(s))

\* The least index >= from at which lexeme tok occurs in s, or 0.
IndexFrom(s, tok, from) ==
    IF \E i \in from..Len(s) : s[i] = tok
    THEN CHOOSE i \in from..Len(s) :
            s[i] = tok /\ \A j \in from..(i - 1) : s[j] # tok
    ELSE 0

\* The number of leading \s lexemes of s from index from on (greedy \s*).
RECURSIVE SpacesFrom(_, _)
SpacesFrom(s, from) ==
    IF from <= Len(s) /\ IsSpace(s[from]) THEN 1 + SpacesFrom(s, from + 1) ELSE 0

\* The lexemes of s from index from up to the end of the line (greedy .+ or .*).
RECURSIVE RestOfLine(_, _)
RestOfLine(s, from) ==
    IF from <= Len(s) /\ s[from] # "\n"
    THEN <<s[from]>> \o RestOfLine(s, from + 1)
    ELSE <<>>

\* String.prototype.split(',')
RECURSIVE Split(_)
Split(s) ==
    LET c == IndexFrom(s, ",", 1)
    IN  IF c = 0 THEN <<s>>
        ELSE <<SubSeq(s, 1, c - 1)>> \o Split(SubSeq(s, c + 1, Len(s)))

----------------------------------------------------------------------------
(* Dates.  A Date object is [valid |-> BOOLEAN, t |-> instant]; an Invalid *)
(* Date (time value NaN) has valid = FALSE.                                *)

InvalidDate == [valid |-> FALSE, t |-> 0]
ValidDate(n) == [valid |-> TRUE, t |-> n]

\* An optional field: <<>> when it was never assigned (undefined), <<v>> when it
\* holds v.  A Date object is truthy whether valid or not.
Absent == <<>>
Present(v) == <<v>>
IsPresent(field) == field # <<>>

\* new Date(text): the instant a date lexeme denotes, else an Invalid Date.
NewDate(text) ==
    IF Len(text) # 1 THEN InvalidDate
    ELSE CASE text[1] = "T0" -> ValidDate(0)
           [] text[1] = "T1" -> ValidDate(1)
           [] text[1] = "T2" -> ValidDate(2)
           [] text[1] = "T3" -> ValidDate(3)
           [] text[1] = "T4" -> ValidDate(4)
           [] OTHER -> InvalidDate

\* now >= d, now <= d, now < d for Date objects: the operands are converted to
\* their time values, and a comparison with NaN is false.
DateGe(n, d) == d.valid /\ n >= d.t
DateLe(n, d) == d.valid /\ n <= d.t
DateLt(n, d) == d.valid /\ n < d.t

----------------------------------------------------------------------------
(* parseIssueBody                                                          *)

\* body.match(/<!--\s*([\s\S]*?)\s*-->/): <<i, j>>, the indices of the first "<!--"
\* and of the first "-->" after it, or <<0, 0>> when there is no match.
CommentMatch(body) ==
    LET i == IndexFrom(body, "<!--", 1)
        j == IF i = 0 THEN 0 ELSE IndexFrom(body, "-->", i + 1)
    IN  IF j = 0 THEN <<0, 0>> ELSE <<i, j>>

\* metadata.match(/key\s*(.+)/): capture group 1 of the first match, as <<text>>,
\* or <<>> when nothing matches.  key is the literal the expression starts with.
RECURSIVE KeyMatchFrom(_, _, _)
KeyMatchFrom(metadata, key, from) ==
    LET p == IndexFrom(metadata, key, from)
    IN  IF p = 0 THEN <<>>
        ELSE LET k == SpacesFrom(metadata, p + 1)
                 \* greedy \s* first; it gives lexemes back until .+ can start
                 starts == {q \in (p + 1)..(p + 1 + k) :
                               q <= Len(metadata) /\ metadata[q] # "\n"}
             IN  IF starts = {} THEN KeyMatchFrom(metadata, key, p + 1)
                 ELSE LET q == CHOOSE x \in starts : \A y \in starts : y <= x
                      IN  <<RestOfLine(metadata, q)>>

\* Variant of the key expressions whose capture group runs across lines.
KeyMatchAcrossLines(metadata, key) ==
    LET p == IndexFrom(metadata, key, 1)
    IN  IF p = 0 THEN <<>>
        ELSE IF p = Len(metadata) THEN <<>>
        ELSE <<SubSeq(metadata, p + 1, Len(metadata))>>

KeyMatch(metadata, key) == KeyMatchFrom(metadata, key, 1)

\* Variant of the service lists that drops the empty segments.
ServiceListWithoutEmpty(text) ==
    LET parts == Split(Trim(text))
    IN  SelectSeq([i \in 1..Len(parts) |-> Trim(parts[i])], LAMBDA part : part # <<>>)

\* downMatch[1].trim().split(',').map(s => s.trim())
ServiceList(text) ==
    LET parts == Split(Trim(text))
    IN  [i \in 1..Len(parts) |-> Trim(parts[i])]

\* body.replace(/<!--[\s\S]*?-->\s*/, '').trim(), the match being body[i..j] and
\* the \s lexemes that follow it
RemoveComment(body, i, j) ==
    LET after == j + 1 + SpacesFrom(body, j + 1)
    IN  Trim(SubSeq(body, 1, i - 1) \o SubSeq(body, after, Len(body)))

\* Variant of parseIssueBody that trims the description of every body.
ParseIssueBodyTrimming(body) ==
    LET cm == CommentMatch(body)
    IN  IF cm = <<0, 0>>
        THEN [start |-> Absent, end |-> Absent, expectedDown |-> Absent,
              expectedDegraded |-> Absent, description |-> Trim(body)]
        ELSE LET metadata == Trim(SubSeq(body, cm[1] + 1, cm[2] - 1))
                 startMatch == KeyMatch(metadata, "start:")
                 endMatch == KeyMatch(metadata, "end:")
                 downMatch == KeyMatch(metadata, "expectedDown:")
                 degradedMatch == KeyMatch(metadata, "expectedDegraded:")
             IN  [start |-> IF startMatch # <<>>
                            THEN Present(NewDate(Trim(startMatch[1])))
                            ELSE Absent,
                  end |-> IF endMatch # <<>>
                          THEN Present(NewDate(Trim(endMatch[1])))
                          ELSE Absent,
                  expectedDown |-> IF downMatch # <<>>
                                   THEN Present(ServiceList(downMatch[1]))
                                   ELSE Absent,
                  expectedDegraded |-> IF degradedMatch # <<>>
                                       THEN Present(ServiceList(degradedMatch[1]))
                                       ELSE Absent,
                  description |-> RemoveComment(body, cm[1], cm[2])]

ParseIssueBody(body) ==
    LET cm == CommentMatch(body)
    IN  IF cm = <<0, 0>>
        THEN [start |-> Absent, end |-> Absent, expectedDown |-> Absent,
              expectedDegraded |-> Absent, description |-> body]
        ELSE LET metadata == Trim(SubSeq(body, cm[1] + 1, cm[2] - 1))
                 startMatch == KeyMatch(metadata, "start:")
                 endMatch == KeyMatch(metadata, "end:")
                 downMatch == KeyMatch(metadata, "expectedDown:")
                 degradedMatch == KeyMatch(metadata, "expectedDegraded:")
             IN  [start |-> IF startMatch # <<>>
                            THEN Present(NewDate(Trim(startMatch[1])))
                            ELSE Absent,
                  end |-> IF endMatch # <<>>
                          THEN Present(NewDate(Trim(endMatch[1])))
                          ELSE Absent,
                  expectedDown |-> IF downMatch # <<>>
                                   THEN Present(ServiceList(downMatch[1]))
                                   ELSE Absent,
                  expectedDegraded |-> IF degradedMatch # <<>>
                                       THEN Present(ServiceList(degradedMatch[1]))
                                       ELSE Absent,
                  description |-> RemoveComment(body, cm[1], cm[2])]

----------------------------------------------------------------------------
(* The temporal predicates and the label classifiers of useStatusAlert.    *)

\* Variant of isActiveSchedule whose upper bound is exclusive.
IsActiveScheduleEndExclusive(parsedInfo) ==
    IF IsPresent(parsedInfo.start) /\ IsPresent(parsedInfo.end)
    THEN DateGe(now, parsedInfo.start[1]) /\ DateLt(now, parsedInfo.end[1])
    ELSE TRUE

\* isActiveSchedule: const now = new Date() is the state variable now.
IsActiveSchedule(parsedInfo) ==
    IF IsPresent(parsedInfo.start) /\ IsPresent(parsedInfo.end)
    THEN DateGe(now, parsedInfo.start[1]) /\ DateLe(now, parsedInfo.end[1])
    ELSE TRUE

\* Variant of isUpcoming that takes a notice without start for upcoming.
IsUpcomingByDefault(parsedInfo) ==
    IF IsPresent(parsedInfo.start)
    THEN DateLt(now, parsedInfo.start[1])
    ELSE TRUE

IsUpcoming(parsedInfo) ==
    IF IsPresent(parsedInfo.start)
    THEN DateLt(now, parsedInfo.start[1])
    ELSE FALSE

\* labels.map(l => l.name.toLowerCase())
LabelNames(labels) == [i \in 1..Len(labels) |-> ToLowerCase(labels[i])]

\* Variant of getAlertType that looks for status first.
GetAlertTypeStatusFirst(labels) ==
    IF Includes(LabelNames(labels), "status") THEN "status"
    ELSE IF Includes(LabelNames(labels), "maintenance") THEN "maintenance"
    ELSE "info"

GetAlertType(labels) ==
    IF Includes(LabelNames(labels), "maintenance") THEN "maintenance"
    ELSE IF Includes(LabelNames(labels), "status") THEN "status"
    ELSE "info"

systemLabels ==
    <<"status", "maintenance", "bug", "enhancement", "help wanted", "question">>

\* Variant of getAffectedServicesFromLabels that compares the names as written.
GetAffectedServicesCaseSensitive(labels) ==
    SelectSeq(labels, LAMBDA l : ~Includes(systemLabels, l))

GetAffectedServicesFromLabels(labels) ==
    SelectSeq(labels, LAMBDA l : ~Includes(systemLabels, ToLowerCase(l)))

----------------------------------------------------------------------------
(* The notices the issue tracker can return.  A notice is a StatusIssue    *)
(* reduced to the fields the engine reads: id, labels (their names), body. *)

Notice(id, labels, body) == [id |-> id, labels |-> labels, body |-> body]

\* tagged status, no comment block
StatusNotice ==
    Notice(101, <<"status", "core-api">>, <<"core-api", " ", "down">>)

\* tagged maintenance, scheduled from instant 1 to instant 1
WindowNotice ==
    Notice(102, <<"MAINTENANCE", "docs">>,
           <<"<!--", "\n", "start:", " ", "T1", "\n", "end:", " ", "T1", "\n",
             "expectedDegraded:", " ", "base-api", ",", " ", "license-api", "\n",
             "-->", "\n", "Planned", " ", "work">>)

\* tagged both maintenance and status (in mixed case), start only, at instant 1
BothNotice ==
    Notice(103, <<"Maintenance", "Status", "auth-api">>,
           <<"<!--", "\n", "start:", "T1", "\n", "-->", "\n", "Upgrade">>)

\* neither tag, no comment block
InfoNotice ==
    Notice(104, <<"question">>, <<"Notice">>)

\* tagged maintenance, the window written the wrong way round: start 2, end 0
InvertedNotice ==
    Notice(105, <<"maintenance">>,
           <<"<!--", " ", "start:", " ", "T2", "\n", "end:", " ", "T0", " ",
             "-->", "Moved">>)

\* tagged maintenance, a start value that is no date, end at instant 1
BadStartNotice ==
    Notice(106, <<"maintenance">>,
           <<"<!--", "\n", "start:", " ", "soon", "\n", "end:", " ", "T1", "\n",
             "-->", "\n", "Later">>)

\* The item lists a search response can carry (data.items).
Responses ==
    { <<>>,
      <<StatusNotice, WindowNotice>>, <<WindowNotice, StatusNotice>>,
      <<BothNotice, InfoNotice>>, <<InvertedNotice>>, <<WindowNotice>>,
      <<BadStartNotice>> }

----------------------------------------------------------------------------
(* The dismissal store of useStatusAlert.  storage is the list that        *)
(* JSON.parse(sessionStorage.getItem('dismissedAlerts') || '[]') yields: a *)
(* missing key and an empty list read the same, and a list of integers     *)
(* survives JSON.stringify and JSON.parse unchanged.                       *)

\* Variant of dismissAlert that pushes without the includes test.
DismissedAlertsAfterAlwaysPush(dismissedAlerts, issueId) ==
    Append(dismissedAlerts, issueId)

\* The list dismissAlert stores for issueId when setItem succeeds.
DismissedAlertsAfter(dismissedAlerts, issueId) ==
    IF ~Includes(dismissedAlerts, issueId)
    THEN Append(dismissedAlerts, issueId)
    ELSE dismissedAlerts

\* One dismissAlert(issueId) call on stored list st.  setItem throws when the
\* storage is not writable; the exception leaves dismissAlert before
\* isDismissed is set.
DismissAlert(st, issueId, writable) ==
    IF Includes(st, issueId) \/ writable
    THEN [storage |-> DismissedAlertsAfter(st, issueId), threw |-> FALSE,
          failed |-> FALSE]
    ELSE [storage |-> st, threw |-> TRUE, failed |-> TRUE]

IsAlertDismissedIn(st, issueId) == Includes(st, issueId)

IsAlertDismissed(issueId) == IsAlertDismissedIn(storage, issueId)

\* Variant of getActiveIssue that does not consult the dismissal store.
FirstFetched(iss, st) == IF iss = <<>> THEN <<>> ELSE <<iss[1]>>

\* issues.value.find(issue => !isAlertDismissed(issue.id)) || null ; null is <<>>
FirstActive(iss, st) ==
    LET active == SelectSeq(iss, LAMBDA issue : ~IsAlertDismissedIn(st, issue.id))
    IN  IF active = <<>> THEN <<>> ELSE <<active[1]>>

GetActiveIssue == FirstActive(issues, storage)

\* Variant of getAllActiveIssues that does not filter.
GetAllFetchedIssues == issues

GetAllActiveIssues ==
    SelectSeq(issues, LAMBDA issue : ~IsAlertDismissed(issue.id))

----------------------------------------------------------------------------
(* The computed refs of the banner.  A computed ref caches its value and   *)
(* evaluates its getter again only after a reactive dependency changed.    *)
(* The getters read the ref issues, which is reactive, and sessionStorage  *)
(* and the clock, which are not: only an assignment to issues makes the    *)
(* caches dirty.  parsedInfo, hasStatusAlert, alertType and                *)
(* allStatusAffectedServices are functions of the cached values alone, so  *)
(* their caches always agree with a fresh evaluation and are not stored.   *)

Dirty == [dirty |-> TRUE, value |-> <<>>]
Cached(v) == [dirty |-> FALSE, value |-> <<v>>]

AllDirty ==
    [activeIssue |-> Dirty, allStatusIssues |-> Dirty, isMaintenanceUpcoming |-> Dirty]

\* getter of allStatusIssues
AllStatusIssuesOf(iss, st) ==
    SelectSeq(iss, LAMBDA issue :
        Includes(LabelNames(issue.labels), "status")
        /\ ~IsAlertDismissedIn(st, issue.id))

\* c after allStatusIssues.value was read
ReadAllStatusIssues(c, iss, st) ==
    IF c.allStatusIssues.dirty
    THEN [c EXCEPT !.allStatusIssues = Cached(AllStatusIssuesOf(iss, st))]
    ELSE c

\* c after activeIssue.value was read
ReadActiveIssue(c, iss, st) ==
    IF c.activeIssue.dirty
    THEN [c EXCEPT !.activeIssue = Cached(FirstActive(iss, st))]
    ELSE c

\* The values of the computed refs, given caches that have been read.
AllStatusIssuesIn(c) == c.allStatusIssues.value[1]
HasStatusAlertIn(c) == Len(AllStatusIssuesIn(c)) > 0
ActiveIssueIn(c) == c.activeIssue.value[1]

\* c after the expression hasStatusAlert || activeIssue was evaluated
ReadHasAny(c, iss, st) ==
    LET c1 == ReadAllStatusIssues(c, iss, st)
    IN  IF HasStatusAlertIn(c1) THEN c1 ELSE ReadActiveIssue(c1, iss, st)

HasAnyIn(c) == IF HasStatusAlertIn(c) THEN TRUE ELSE ActiveIssueIn(c) # <<>>

\* getter of alertType, and c after alertType.value was read
ReadAlertType(c, iss, st) == ReadHasAny(c, iss, st)

\* Variant of alertType without the hasStatusAlert test.
AlertTypeOfActiveIssue(c) ==
    IF c.activeIssue.dirty THEN "info"
    ELSE IF ActiveIssueIn(c) = <<>> THEN "info"
    ELSE GetAlertType(ActiveIssueIn(c)[1].labels)

AlertTypeIn(c) ==
    IF HasStatusAlertIn(c) THEN "status"
    ELSE IF ActiveIssueIn(c) = <<>> THEN "info"
    ELSE GetAlertType(ActiveIssueIn(c)[1].labels)

\* getter of parsedInfo: null is <<>>
ParsedInfoIn(c) ==
    IF ActiveIssueIn(c) = <<>> THEN <<>>
    ELSE <<ParseIssueBody(ActiveIssueIn(c)[1].body)>>

\* getter of isMaintenanceUpcoming, on caches in which activeIssue (through
\* parsedInfo) and alertType have been read
IsMaintenanceUpcomingGetter(c) ==
    IF ParsedInfoIn(c) = <<>> THEN FALSE
    ELSE IF AlertTypeIn(c) # "maintenance" THEN FALSE
    ELSE IsUpcoming(ParsedInfoIn(c)[1])

\* c after isMaintenanceUpcoming.value was read
ReadIsMaintenanceUpcoming(c, iss, st) ==
    LET c1 == ReadActiveIssue(c, iss, st)
        c2 == IF ActiveIssueIn(c1) = <<>> THEN c1 ELSE ReadAlertType(c1, iss, st)
    IN  IF c2.isMaintenanceUpcoming.dirty
        THEN [c2 EXCEPT !.isMaintenanceUpcoming =
                            Cached(IsMaintenanceUpcomingGetter(c2))]
        ELSE c2

\* v-if of the banner element, on caches in which hasStatusAlert || activeIssue
\* has been read
BannerIf(c, visible, loading) == HasAnyIn(c) /\ visible /\ ~loading

\* c after the template was rendered: the v-if, and inside the banner alertStyles
\* (alertType, and isMaintenanceUpcoming for a maintenance alert) and
\* hasAffectedServices (parsedInfo, hence activeIssue).
Render(c, iss, st, visible, loading) ==
    LET c1 == ReadHasAny(c, iss, st)
    IN  IF ~BannerIf(c1, visible, loading) THEN c1
        ELSE LET c2 == ReadActiveIssue(ReadAlertType(c1, iss, st), iss, st)
             IN  IF AlertTypeIn(c2) = "maintenance"
                 THEN ReadIsMaintenanceUpcoming(c2, iss, st)
                 ELSE c2

\* The render effect and the watcher run while the component is mounted.
RenderIfMounted(c, iss, st, visible, loading) ==
    IF mounted = "yes" THEN Render(c, iss, st, visible, loading) ELSE c

----------------------------------------------------------------------------
(* The state machine.                                                      *)

Init ==
    /\ storage = <<>>
    /\ issues = <<>>
    /\ isLoading = FALSE
    /\ error = "null"
    /\ isDismissed = FALSE
    /\ inflight = 0
    /\ fetches = 0
    /\ mounted = "no"
    /\ now = 0
    /\ isVisible = FALSE
    /\ mountTimer = FALSE
    /\ showTimers = 0
    /\ dismissTimers = 0
    /\ computed = AllDirty
    /\ returned = {}
    /\ repeats = {}
    /\ atLoad = {}
    /\ failed = {}
    /\ threw = {}
    /\ lastEvent = "none"

\* The component is mounted: its first render, then the onMounted hook of the
\* composable (fetchStatusIssues up to its await) and the onMounted hook of the
\* component (the 1500 ms timer).
Mount ==
    /\ mounted = "no"
    /\ mounted' = "yes"
    /\ isLoading' = TRUE
    /\ error' = "null"
    /\ inflight' = inflight + 1
    /\ fetches' = fetches + 1
    /\ mountTimer' = TRUE
    /\ lastEvent' = "start"
    /\ computed' = Render(Render(computed, issues, storage, isVisible, FALSE),
                          issues, storage, isVisible, TRUE)
    /\ UNCHANGED <<storage, issues, isDismissed, now, isVisible, showTimers,
                   dismissTimers, returned, repeats, atLoad, failed, threw>>

\* Variant of fetchStatusIssues that does not clear error when it starts.
FetchStatusIssuesKeepingError ==
    /\ mounted # "no"
    /\ fetches < MaxFetches
    /\ isLoading' = TRUE
    /\ inflight' = inflight + 1
    /\ fetches' = fetches + 1
    /\ lastEvent' = "start"
    /\ computed' = RenderIfMounted(computed, issues, storage, isVisible, TRUE)
    /\ UNCHANGED <<storage, issues, error, isDismissed, mounted, now, isVisible,
                   mountTimer, showTimers, dismissTimers, returned, repeats,
                   atLoad, failed, threw>>

\* fetchStatusIssues called again by a caller, up to its await.
FetchStatusIssues ==
    /\ mounted # "no"
    /\ fetches < MaxFetches
    /\ isLoading' = TRUE
    /\ error' = "null"
    /\ inflight' = inflight + 1
    /\ fetches' = fetches + 1
    /\ lastEvent' = "start"
    /\ computed' = RenderIfMounted(computed, issues, storage, isVisible, TRUE)
    /\ UNCHANGED <<storage, issues, isDismissed, mounted, now, isVisible,
                   mountTimer, showTimers, dismissTimers, returned, repeats, atLoad, failed, threw>>

\* checkAndShowAlert, the watcher of issues: whether it starts its timer, on
\* caches in which hasStatusAlert || activeIssue has been read
CheckAndShowAlert(c) == HasAnyIn(c)

\* The objects response.json() can resolve to: one with items, one without.
Payloads == {[items |-> Present(r)] : r \in Responses} \cup {[items |-> Absent]}

\* data.items || []
ItemsOf(data) == IF IsPresent(data.items) THEN data.items[1] ELSE <<>>

\* A fetch resumes with a response that is ok and decodes to data: issues is
\* assigned data.items || [], then isLoading; the caches become dirty, the
\* watcher runs, the component renders.
FetchSucceeds(data) ==
    /\ inflight > 0
    /\ inflight' = inflight - 1
    /\ issues' = ItemsOf(data)
    /\ isLoading' = FALSE
    /\ lastEvent' = IF IsPresent(data.items) THEN "items" ELSE "no items"
    /\ IF mounted = "yes"
       THEN LET c1 == ReadHasAny(AllDirty, ItemsOf(data), storage)
            IN  /\ CheckAndShowAlert(c1) => showTimers < MaxTimers
                /\ showTimers' = IF CheckAndShowAlert(c1)
                                 THEN showTimers + 1 ELSE showTimers
                /\ computed' = Render(c1, ItemsOf(data), storage, isVisible, FALSE)
       ELSE UNCHANGED <<showTimers, computed>>
    /\ UNCHANGED <<storage, error, isDismissed, fetches, mounted, now, isVisible,
                   mountTimer, dismissTimers, returned, repeats, atLoad, failed, threw>>

\* response.status of the responses that are not ok, as template text
HttpStatuses == {"404", "500"}

\* What makes the try block of fetchStatusIssues throw: fetch rejects, the
\* response is not ok (the kind is its status), response.json() rejects.
FailureKinds == {"network", "decode"} \cup HttpStatuses

\* Variant of the catch block that stores its fallback text for every failure.
ErrorMessageFallback(kind) == "Failed to fetch status"

\* err.message of what the try block of fetchStatusIssues throws
ErrorMessage(kind) ==
    CASE kind = "network" -> "Failed to fetch"
      [] kind = "decode" -> "Unexpected token"
      [] OTHER -> "GitHub API error: " \o kind

\* Variant of fetchStatusIssues without the finally block.
FetchFailsStillLoading(kind) ==
    /\ inflight > 0
    /\ inflight' = inflight - 1
    /\ error' = ErrorMessage(kind)
    /\ lastEvent' = kind
    /\ computed' = RenderIfMounted(computed, issues, storage, isVisible, isLoading)
    /\ UNCHANGED <<storage, issues, isLoading, isDismissed, fetches, mounted, now,
                   isVisible, mountTimer, showTimers, dismissTimers, returned,
                   repeats, atLoad, failed, threw>>

\* A fetch resumes with a failure: fetch rejects, response.ok is false, or
\* response.json() rejects.
FetchFails(kind) ==
    /\ inflight > 0
    /\ inflight' = inflight - 1
    /\ error' = ErrorMessage(kind)
    /\ isLoading' = FALSE
    /\ lastEvent' = kind
    /\ computed' = RenderIfMounted(computed, issues, storage, isVisible, FALSE)
    /\ UNCHANGED <<storage, issues, isDismissed, fetches, mounted, now, isVisible,
                   mountTimer, showTimers, dismissTimers, returned, repeats, atLoad, failed, threw>>

\* The timer of onMounted fires.
MountTimerFires ==
    /\ mountTimer
    /\ mountTimer' = FALSE
    /\ LET c1 == ReadHasAny(computed, issues, storage)
           show == IF ~HasAnyIn(c1) THEN FALSE
                   ELSE IF HasStatusAlertIn(c1) THEN TRUE
                   ELSE ~IsAlertDismissed(ActiveIssueIn(c1)[1].id)
           visible == IF show THEN TRUE ELSE isVisible
       IN  /\ isVisible' = visible
           /\ computed' = RenderIfMounted(c1, issues, storage, visible, isLoading)
    /\ UNCHANGED <<storage, issues, isLoading, error, isDismissed, inflight,
                   fetches, mounted, now, showTimers, dismissTimers, returned, repeats, atLoad,
                   failed, threw, lastEvent>>

\* A timer of checkAndShowAlert fires.  It was started after the timer of
\* onMounted, with the same delay, so it fires after it.
ShowTimerFires ==
    /\ showTimers > 0
    /\ ~mountTimer
    /\ showTimers' = showTimers - 1
    /\ isVisible' = TRUE
    /\ computed' = RenderIfMounted(computed, issues, storage, TRUE, isLoading)
    /\ UNCHANGED <<storage, issues, isLoading, error, isDismissed, inflight,
                   fetches, mounted, now, mountTimer, dismissTimers, returned, repeats, atLoad,
                   failed, threw, lastEvent>>

\* The banner is rendered.
BannerShown ==
    /\ mounted = "yes"
    /\ BannerIf(computed, isVisible, isLoading)

\* handleDismiss, the click on the dismiss button of the rendered banner, up to
\* its setTimeout.
HandleDismiss ==
    /\ BannerShown
    /\ dismissTimers < MaxTimers
    /\ isVisible' = FALSE
    /\ dismissTimers' = dismissTimers + 1
    /\ computed' = Render(computed, issues, storage, FALSE, isLoading)
    /\ UNCHANGED <<storage, issues, isLoading, error, isDismissed, inflight,
                   fetches, mounted, now, mountTimer, showTimers, returned, repeats, atLoad,
                   failed, threw, lastEvent>>

\* issue.id of each issue of list, in order
Ids(list) == [i \in 1..Len(list) |-> list[i].id]

\* The ids the timer of handleDismiss passes to dismissAlert, in order, on
\* caches in which alertType (and activeIssue, when the type is not status)
\* has been read.
DismissTargets(c) ==
    IF AlertTypeIn(c) = "status"
    THEN Ids(AllStatusIssuesIn(c))
    ELSE IF ActiveIssueIn(c) # <<>> THEN <<ActiveIssueIn(c)[1].id>>
    ELSE <<>>

\* dismissAlert on each of ids in turn, until one throws: the stored list, the
\* ids whose call returned, and the id whose call threw (as a set).
RECURSIVE DismissEach(_, _, _)
DismissEach(st, ids, writable) ==
    IF ids = <<>>
    THEN [storage |-> st, returned |-> {}, repeats |-> {}, threw |-> {}]
    ELSE LET r == DismissAlert(st, Head(ids), writable)
         IN  IF r.threw
             THEN [storage |-> r.storage, returned |-> {}, repeats |-> {},
                   threw |-> {Head(ids)}]
             ELSE LET rest == DismissEach(r.storage, Tail(ids), writable)
                  IN  [rest EXCEPT
                         !.returned = @ \cup {Head(ids)},
                         !.repeats = IF Includes(st, Head(ids))
                                     THEN @ \cup {Head(ids)} ELSE @]

\* The timer of handleDismiss fires.  An exception of dismissAlert ends the
\* callback.
DismissTimerFires(writable) ==
    /\ dismissTimers > 0
    /\ dismissTimers' = dismissTimers - 1
    /\ LET c1 == ReadAlertType(computed, issues, storage)
           c2 == IF AlertTypeIn(c1) = "status" THEN c1
                 ELSE ReadActiveIssue(c1, issues, storage)
           r == DismissEach(storage, DismissTargets(c2), writable)
       IN  /\ storage' = r.storage
           /\ isDismissed' = IF r.returned # {} THEN TRUE ELSE isDismissed
           /\ returned' = returned \cup r.returned
           /\ repeats' = repeats \cup r.repeats
           /\ failed' = failed \cup r.threw
           /\ threw' = threw \cup r.threw
           /\ computed' = c2
    /\ UNCHANGED <<issues, isLoading, error, inflight, fetches, mounted, now,
                   isVisible, mountTimer, showTimers, atLoad, lastEvent>>

\* The component is unmounted: its render effect and its watcher stop; its
\* timers and its fetches are not cancelled.
Unmount ==
    /\ mounted = "yes"
    /\ mounted' = "gone"
    /\ UNCHANGED <<storage, issues, isLoading, error, isDismissed, inflight,
                   fetches, now, isVisible, mountTimer, showTimers, dismissTimers,
                   computed, returned, repeats,
          atLoad, failed, threw, lastEvent>>

\* The page is loaded again in the same browsing session: sessionStorage is
\* kept, everything in memory starts over.
Reload ==
    /\ mounted # "no"
    /\ fetches < MaxFetches
    /\ issues' = <<>>
    /\ isLoading' = FALSE
    /\ error' = "null"
    /\ isDismissed' = FALSE
    /\ inflight' = 0
    /\ mounted' = "no"
    /\ isVisible' = FALSE
    /\ mountTimer' = FALSE
    /\ showTimers' = 0
    /\ dismissTimers' = 0
    /\ computed' = AllDirty
    /\ failed' = {}
    /\ threw' = {}
    /\ lastEvent' = "none"
    /\ atLoad' = {storage[i] : i \in 1..Len(storage)}
    /\ UNCHANGED <<storage, fetches, now, returned, repeats>>

\* Time passes.
Tick ==
    /\ now < MaxTime
    /\ now' = now + 1
    /\ UNCHANGED <<storage, issues, isLoading, error, isDismissed, inflight,
                   fetches, mounted, isVisible, mountTimer, showTimers,
                   dismissTimers, computed, returned, repeats,
          atLoad, failed, threw, lastEvent>>

Next ==
    \/ Mount
    \/ FetchStatusIssues
    \/ \E data \in Payloads : FetchSucceeds(data)
    \/ \E kind \in FailureKinds : FetchFails(kind)
    \/ MountTimerFires
    \/ ShowTimerFires
    \/ HandleDismiss
    \/ \E writable \in BOOLEAN : DismissTimerFires(writable)
    \/ Unmount
    \/ Reload
    \/ Tick

Spec == Init /\ [][Next]_vars

----------------------------------------------------------------------------
(* Vocabulary of the properties.                                           *)

Range(list) == {list[i] : i \in 1..Len(list)}

NoDuplicates(list) == \A i, j \in 1..Len(list) : list[i] = list[j] => i = j

\* The ids of the notices the tracker can return.
NoticeIds == UNION {{r[i].id : i \in 1..Len(r)} : r \in Responses}

\* Every value the start and the end field of a ParsedStatusInfo can take within
\* the horizon of the clock.
ScheduleFields ==
    {Absent, Present(InvalidDate)} \cup {Present(ValidDate(t)) : t \in 0..(MaxTime + 1)}

ScheduleInputs ==
    [start : ScheduleFields, end : ScheduleFields, expectedDown : {Absent},
     expectedDegraded : {Absent}, description : {<<>>}]

\* The notices the tracker can return, and the ParsedStatusInfo of each.
Notices == UNION {Range(r) : r \in Responses}

InfoOf == [n \in Notices |-> ParseIssueBody(n.body)]

\* The ParsedStatusInfo of the fetched notices.
FetchedInfos == {InfoOf[issues[i]] : i \in 1..Len(issues)}

BothValid(m) ==
    /\ IsPresent(m.start) /\ IsPresent(m.end)
    /\ m.start[1].valid /\ m.end[1].valid

OnlyStartValid(m) == IsPresent(m.start) /\ m.start[1].valid /\ ~IsPresent(m.end)

Unscheduled(m) == ~IsPresent(m.start) /\ ~IsPresent(m.end)

\* The schedules with a start and an end that are both dates, and those with
\* neither, where expectedDown and expectedDegraded may be set or not.
WindowInputs == {m \in ScheduleInputs : BothValid(m)}

UnscheduledInputs ==
    [start : {Absent}, end : {Absent},
     expectedDown : {Absent, Present(<<"core-api">>)},
     expectedDegraded : {Absent, Present(<<"base-api">>)}, description : {<<>>, <<"Notice">>}]

\* TemporalState expired: the window, start <= end, is over.
Expired(m) == BothValid(m) /\ m.start[1].t <= m.end[1].t /\ now > m.end[1].t

\* The fetched notices nobody has dismissed, by category.
NotDismissed(issue) == ~IsAlertDismissed(issue.id)

HasLiveStatusNotice ==
    \E i \in 1..Len(issues) :
        NotDismissed(issues[i]) /\ GetAlertType(issues[i].labels) = "status"

HasLiveOtherNotice ==
    \E i \in 1..Len(issues) :
        NotDismissed(issues[i]) /\ GetAlertType(issues[i].labels) # "status"

\* The banner presents its primary notice (not the status group).
PrimaryPresented ==
    /\ BannerShown
    /\ AlertTypeIn(computed) # "status"
    /\ ~computed.activeIssue.dirty
    /\ ActiveIssueIn(computed) # <<>>

----------------------------------------------------------------------------
(* C1: dismissAlert is idempotent on the stored list.  From every reachable *)
(* stored list and for every id, a second dismissAlert(id) leaves the list  *)
(* the first call left, whether or not the storage is still writable, and   *)
(* does not throw; that list holds id once, and besides id exactly the ids  *)
(* it held before.  The stored list never holds an id twice.               *)
C1_DismissIdempotent ==
    /\ NoDuplicates(storage)
    /\ \A id \in NoticeIds :
         LET once == DismissAlert(storage, id, TRUE).storage
         IN  /\ Range(once) = Range(storage) \cup {id}
             /\ NoDuplicates(once)
             /\ \A writable \in BOOLEAN :
                  LET twice == DismissAlert(once, id, writable)
                  IN  twice.storage = once /\ ~twice.threw

\* dismissAlert ran for an id that was already stored, and the id is stored once.
C1_Witness ==
    \E id \in repeats :
        Cardinality({i \in 1..Len(storage) : storage[i] = id}) = 1

(* C2: getAllActiveIssues is the fetched list without the notices whose    *)
(* dismissAlert call has returned, in fetch order; isAlertDismissed and    *)
(* getActiveIssue agree with it in every state, so also in the state right *)
(* after a dismissAlert call.                                              *)
C2_ActiveIsFetchedMinusDismissed ==
    /\ GetAllActiveIssues = SelectSeq(issues, LAMBDA issue : issue.id \notin returned)
    /\ \A id \in NoticeIds : IsAlertDismissed(id) <=> id \in returned
    /\ \A i \in 1..Len(GetAllActiveIssues) :
         GetAllActiveIssues[i].id \notin Range(storage)
    /\ GetActiveIssue =
         IF GetAllActiveIssues = <<>> THEN <<>> ELSE <<GetAllActiveIssues[1]>>

\* Of two fetched notices the first is dismissed and the second is what is left.
C2_Witness ==
    /\ Len(issues) = 2
    /\ issues[1].id \in returned
    /\ GetAllActiveIssues = <<issues[2]>>

(* C3: a notice that was dismissed before the page was loaded again is     *)
(* never selected after the reload: isAlertDismissed stays true for it,    *)
(* getActiveIssue does not return it, and neither the banner's activeIssue *)
(* nor its status group holds it, also after a fetch that returns it.      *)
C3_DismissedSurvivesReload ==
    \A id \in atLoad :
        /\ IsAlertDismissed(id)
        /\ GetActiveIssue = <<>> \/ GetActiveIssue[1].id # id
        /\ computed.activeIssue.dirty
           \/ ActiveIssueIn(computed) = <<>>
           \/ ActiveIssueIn(computed)[1].id # id
        /\ computed.allStatusIssues.dirty
           \/ \A i \in 1..Len(AllStatusIssuesIn(computed)) :
                  AllStatusIssuesIn(computed)[i].id # id

\* After a reload a fetch has returned a notice dismissed before the reload,
\* and the banner has made its selection.
C3_Witness ==
    /\ mounted = "yes"
    /\ ~computed.allStatusIssues.dirty
    /\ \E i \in 1..Len(issues) : issues[i].id \in atLoad

(* C4: a failing session-storage write does not make dismissAlert throw,   *)
(* and the notice counts as dismissed for the rest of the page load.       *)
C4_WriteFailureTolerated ==
    \A id \in failed :
        /\ id \notin threw
        /\ IsAlertDismissed(id)
        /\ \A i \in 1..Len(GetAllActiveIssues) : GetAllActiveIssues[i].id # id

(* C5: while a status-category notice and a maintenance or info notice are *)
(* both fetched and not dismissed, the mounted banner's alert type is      *)
(* status and the unit it presents and dismisses is the status group, in   *)
(* either fetch order and whatever the schedule of the other notice.       *)
C5_StatusGroupFirst ==
    (mounted = "yes" /\ HasLiveStatusNotice /\ HasLiveOtherNotice)
    => /\ ~computed.allStatusIssues.dirty
       /\ AlertTypeIn(computed) = "status"
       /\ DismissTargets(computed) = Ids(AllStatusIssuesIn(computed))
       /\ \A i \in 1..Len(issues) :
            ~Includes(LabelNames(issues[i].labels), "status")
            => ~Includes(DismissTargets(computed), issues[i].id)

\* The banner is shown for a fetched list whose first notice is a maintenance
\* notice that is active now, followed by a status notice.
C5_Witness ==
    /\ BannerShown
    /\ HasLiveStatusNotice
    /\ Len(issues) = 2
    /\ GetAlertType(issues[1].labels) = "maintenance"
    /\ NotDismissed(issues[1])
    /\ BothValid(ParseIssueBody(issues[1].body))
    /\ IsActiveSchedule(ParseIssueBody(issues[1].body))
    /\ AlertTypeIn(computed) = "status"

(* C6: a maintenance or info notice whose TemporalState is expired is      *)
(* never the notice the banner presents.                                   *)
C6_ExpiredNeverPresented ==
    PrimaryPresented => ~Expired(ParsedInfoIn(computed)[1])

(* C7: the members of the status group all have Category status, and every *)
(* fetched notice of Category status that is not dismissed is a member.    *)
C7_StatusGroupIsStatusCategory ==
    (mounted = "yes" /\ ~computed.allStatusIssues.dirty)
    => /\ \A i \in 1..Len(AllStatusIssuesIn(computed)) :
            GetAlertType(AllStatusIssuesIn(computed)[i].labels) = "status"
       /\ \A i \in 1..Len(issues) :
            (NotDismissed(issues[i]) /\ GetAlertType(issues[i].labels) = "status")
            => Includes(AllStatusIssuesIn(computed), issues[i])

(* C8 as claimed: with start and end both valid, a fetched notice is       *)
(* active iff start <= now <= end, upcoming iff now < start, and neither   *)
(* iff now > end.                                                          *)
C8_ExpiredIffAfterEnd ==
    \A m \in FetchedInfos :
        BothValid(m)
        => /\ IsActiveSchedule(m) <=> (m.start[1].t <= now /\ now <= m.end[1].t)
           /\ IsUpcoming(m) <=> now < m.start[1].t
           /\ (~IsActiveSchedule(m) /\ ~IsUpcoming(m)) <=> now > m.end[1].t

(* C8 as amended: with start and end both valid, at every instant the      *)
(* notice is active iff start <= now <= end (both bounds inclusive),       *)
(* upcoming iff now < start, and neither iff now > end and now >= start,   *)
(* which is now > end whenever start <= end.  The classifiers read their   *)
(* argument and the clock only: every window of the horizon is classified  *)
(* at every instant before the component is mounted, the fetched notices   *)
(* in every state.                                                         *)
C8_WindowClassification ==
    LET Classified(m) ==
            /\ IsActiveSchedule(m) <=> (m.start[1].t <= now /\ now <= m.end[1].t)
            /\ IsUpcoming(m) <=> now < m.start[1].t
            /\ (~IsActiveSchedule(m) /\ ~IsUpcoming(m))
                 <=> (now > m.end[1].t /\ now >= m.start[1].t)
            /\ m.start[1].t <= m.end[1].t
                 => ((~IsActiveSchedule(m) /\ ~IsUpcoming(m)) <=> now > m.end[1].t)
    IN  /\ mounted = "no" => \A m \in WindowInputs : Classified(m)
        /\ \A m \in FetchedInfos : BothValid(m) => Classified(m)

\* A fetched notice has start = end = now, and is active.
C8_Witness ==
    \E m \in FetchedInfos :
        /\ BothValid(m)
        /\ m.start[1].t = now /\ m.end[1].t = now
        /\ IsActiveSchedule(m)

(* C9: with a valid start and no end, a fetched notice is upcoming iff     *)
(* now < start and active otherwise, so never both.                        *)
C9_StartOnlyUpcomingOrActive ==
    \A m \in FetchedInfos :
        OnlyStartValid(m)
        => /\ IsUpcoming(m) <=> now < m.start[1].t
           /\ IsActiveSchedule(m) <=> ~(now < m.start[1].t)

(* C10: with neither start nor end, at every instant isActiveSchedule is   *)
(* true and isUpcoming is false; a fetched notice without a schedule that  *)
(* is not dismissed is returned by getAllActiveIssues at every instant,    *)
(* and the banner never treats it as upcoming.  The schedules without     *)
(* start and end are classified at every instant before the component is   *)
(* mounted, the fetched notices in every state.                            *)
C10_UnscheduledAlwaysActive ==
    /\ mounted = "no"
       => \A m \in UnscheduledInputs : IsActiveSchedule(m) /\ ~IsUpcoming(m)
    /\ \A m \in FetchedInfos :
         Unscheduled(m) => IsActiveSchedule(m) /\ ~IsUpcoming(m)
    /\ \A i \in 1..Len(issues) :
         (Unscheduled(InfoOf[issues[i]]) /\ NotDismissed(issues[i]))
         => Includes(GetAllActiveIssues, issues[i])
    /\ (PrimaryPresented /\ Unscheduled(ParsedInfoIn(computed)[1])
        /\ ~computed.isMaintenanceUpcoming.dirty)
       => ~computed.isMaintenanceUpcoming.value[1]

\* The banner presents a notice without a schedule after time has passed.
C10_Witness ==
    /\ PrimaryPresented
    /\ Unscheduled(ParsedInfoIn(computed)[1])
    /\ now = MaxTime

\* A start or an end that was written but is no date.
InvalidField(field) == IsPresent(field) /\ ~field[1].valid

(* C11: a notice whose start (or end) value is no date is classified, at   *)
(* every instant, as the same notice without that key.                     *)
C11_InvalidAsAbsent ==
    \A m \in FetchedInfos :
        /\ InvalidField(m.start)
           => LET without == [m EXCEPT !.start = Absent]
              IN  /\ IsActiveSchedule(m) <=> IsActiveSchedule(without)
                  /\ IsUpcoming(m) <=> IsUpcoming(without)
        /\ InvalidField(m.end)
           => LET without == [m EXCEPT !.end = Absent]
              IN  /\ IsActiveSchedule(m) <=> IsActiveSchedule(without)
                  /\ IsUpcoming(m) <=> IsUpcoming(without)

(* C12: isLoading is true only while a fetch is in flight.  Whenever it is *)
(* true a fetchStatusIssues call has started and not finished; it is false *)
(* before the first fetch of the page and once a fetch has finished, by    *)
(* success or by failure, until the next one starts.                       *)
C12_LoadingOnlyInFlight ==
    /\ isLoading => (inflight > 0 /\ fetches > 0)
    /\ lastEvent = "none" => ~isLoading
    /\ lastEvent \in {"items", "no items"} \cup FailureKinds => ~isLoading
    /\ isLoading <=> lastEvent = "start"

\* A second fetch is in flight after the first one finished.
C12_Witness == isLoading /\ inflight = 1 /\ fetches = 2

(* C13: error is null once a fetchStatusIssues call has started, is not    *)
(* null once an attempt has failed, and no step of the page changes it     *)
(* except the start of a fetch and the failure of one: time, timers,       *)
(* dismissals, unmounting and successful fetches leave it as it is.        *)
C13_ErrorLifecycle ==
    /\ [](lastEvent = "start" => error = "null")
    /\ [](lastEvent \in FailureKinds => error # "null")
    /\ [][error' # error
          => \/ fetches' = fetches + 1 /\ error' = "null"
             \/ inflight' = inflight - 1 /\ lastEvent' \in FailureKinds
                /\ error' # "null"
             \/ mounted' = "no"]_vars

\* The second fetch of the page failed, the component is gone and time has
\* passed: error holds the message.
C13_Witness ==
    /\ lastEvent \in FailureKinds
    /\ fetches = 2
    /\ inflight = 0
    /\ mounted = "gone"
    /\ now > 0
    /\ error # "null"

(* C14: a fetch failure of every kind ends inside fetchStatusIssues: after *)
(* it, and until the next fetch event, error is not null, carries the      *)
(* status code when the response was not ok, and isLoading is false.       *)
C14_FailureEndsInside ==
    lastEvent \in FailureKinds
    => /\ error # "null"
       /\ ~isLoading
       /\ lastEvent \in HttpStatuses => error = "GitHub API error: " \o lastEvent
       /\ lastEvent = "network" => error = "Failed to fetch"

\* A response with status 404 has been handled while another fetch is in flight.
C14_Witness ==
    /\ lastEvent = "404"
    /\ error = "GitHub API error: 404"
    /\ inflight = 1

(* C15: an ok response whose payload decodes to an object without the      *)
(* collection of notices makes the fetch fail: once it is handled, error   *)
(* is not null.                                                            *)
C15_MalformedPayloadFails == lastEvent = "no items" => error # "null"

(* C16: a fetch that resolves or fails after the component was unmounted   *)
(* updates none of issues, error and isLoading.                            *)
C16_NoUpdateAfterUnmount ==
    [][(mounted = "gone" /\ mounted' = "gone" /\ inflight' = inflight - 1)
       => (issues' = issues /\ error' = error /\ isLoading' = isLoading)]_vars

(* C17: from the failure of a fetch until the next fetch event, the banner *)
(* is not rendered.                                                        *)
C17_NoBannerAfterFailure == lastEvent \in FailureKinds => ~BannerShown

\* The sequences over alphabet of length at most MaxLen.
SeqsUpTo(alphabet) == UNION {[1..n -> alphabet] : n \in 0..MaxLen}

\* Label names as the tracker spells them, and the label lists made of them.
LabelAlphabet ==
    {"status", "Status", "maintenance", "MAINTENANCE", "Maintenance", "Bug",
     "Help Wanted", "question", "enhancement", "core-api", "Core-API"}

LabelInputs == SeqsUpTo(LabelAlphabet)

\* Some label of labels is name, whatever the case of its letters.
HasLabel(labels, name) == \E i \in 1..Len(labels) : ToLowerCase(labels[i]) = name

\* getAlertType gives the Category of labels as the precedence rule states it.
CategoryByPrecedence(labels) ==
    /\ GetAlertType(labels) \in {"maintenance", "status", "info"}
    /\ GetAlertType(labels) = "maintenance" <=> HasLabel(labels, "maintenance")
    /\ GetAlertType(labels) = "status"
         <=> (~HasLabel(labels, "maintenance") /\ HasLabel(labels, "status"))
    /\ GetAlertType(labels) = "info"
         <=> (~HasLabel(labels, "maintenance") /\ ~HasLabel(labels, "status"))

CategoryByPrecedenceOnInputs == \A labels \in LabelInputs : CategoryByPrecedence(labels)

(* C18: getAlertType gives every label list exactly one category, with the *)
(* precedence maintenance, status, info and names compared whatever their  *)
(* case: for every label list of the input set and of the fetched notices. *)
C18_CategoryPrecedence ==
    /\ CategoryByPrecedenceOnInputs
    /\ \A i \in 1..Len(issues) : CategoryByPrecedence(issues[i].labels)

\* A fetched notice is labelled Maintenance and Status, and is maintenance.
C18_Witness ==
    \E i \in 1..Len(issues) :
        /\ Includes(issues[i].labels, "Maintenance")
        /\ Includes(issues[i].labels, "Status")
        /\ GetAlertType(issues[i].labels) = "maintenance"

\* The six names getAffectedServicesFromLabels excludes.
SystemNames ==
    {"status", "maintenance", "bug", "enhancement", "help wanted", "question"}

\* getAffectedServicesFromLabels gives the labels outside SystemNames, in input
\* order and as written.
ServicesAreOtherLabels(labels) ==
    LET services == GetAffectedServicesFromLabels(labels)
        kept == {i \in 1..Len(labels) : ToLowerCase(labels[i]) \notin SystemNames}
    IN  /\ Len(services) = Cardinality(kept)
        /\ \A k \in 1..Len(services) :
             \E i \in kept :
                /\ services[k] = labels[i]
                /\ Cardinality({j \in kept : j < i}) = k - 1

ServicesAreOtherLabelsOnInputs ==
    \A labels \in LabelInputs : ServicesAreOtherLabels(labels)

(* C19: getAffectedServicesFromLabels returns the labels whose lower-cased *)
(* name is none of the six system names, in input order and as written,    *)
(* for every label list of the input set and of the fetched notices;       *)
(* status, maintenance, core-api gives core-api.                           *)
C19_AffectedServices ==
    /\ ServicesAreOtherLabelsOnInputs
    /\ GetAffectedServicesFromLabels(<<"status", "maintenance", "core-api">>)
         = <<"core-api">>
    /\ GetAffectedServicesFromLabels(<<"Core-API", "Bug", "Help Wanted", "core-api">>)
         = <<"Core-API", "core-api">>
    /\ \A i \in 1..Len(issues) : ServicesAreOtherLabels(issues[i].labels)

\* A fetched notice is labelled MAINTENANCE and docs: its service is docs.
C19_Witness ==
    \E i \in 1..Len(issues) :
        /\ issues[i].labels = <<"MAINTENANCE", "docs">>
        /\ GetAffectedServicesFromLabels(issues[i].labels) = <<"docs">>

\* Lexemes of a body, and the bodies made of them.
BodyAlphabet == {"<!--", "-->", " ", "\n", "start:", "T1", "Notice"}

BodyInputs == SeqsUpTo(BodyAlphabet)

\* body holds a comment block: a "<!--" with a "-->" after it.
HasCommentBlock(body) ==
    \E i, j \in 1..Len(body) : i < j /\ body[i] = "<!--" /\ body[j] = "-->"

\* parseIssueBody of a body without comment block
VerbatimWithoutComment(body) ==
    ~HasCommentBlock(body)
    => ParseIssueBody(body)
         = [start |-> Absent, end |-> Absent, expectedDown |-> Absent,
            expectedDegraded |-> Absent, description |-> body]

VerbatimWithoutCommentOnInputs == \A body \in BodyInputs : VerbatimWithoutComment(body)

(* C20: for a body without comment block parseIssueBody returns the body  *)
(* as description, white space included, and no start, end, expectedDown   *)
(* or expectedDegraded: for every body of the input set and of the fetched *)
(* notices.                                                                *)
C20_NoCommentVerbatim ==
    /\ VerbatimWithoutCommentOnInputs
    /\ \A i \in 1..Len(issues) : VerbatimWithoutComment(issues[i].body)

\* The banner has parsed its notice, whose body has no comment block.
C20_Witness ==
    /\ mounted = "yes"
    /\ ~computed.activeIssue.dirty
    /\ ActiveIssueIn(computed) # <<>>
    /\ ~HasCommentBlock(ActiveIssueIn(computed)[1].body)
    /\ ParsedInfoIn(computed)[1].description = ActiveIssueIn(computed)[1].body

\* White space between the parts of a comment block, and between a key and
\* its value.
Gaps == {<<>>, <<" ">>, <<"\n">>, <<"\n", " ">>}

KeyGaps == {<<>>, <<" ">>}

\* What a body can hold in front of its comment block and behind it.
Prefixes == {<<>>, <<"Intro", "\n">>}

Suffixes == {<<>>, <<"\n", "Planned", " ", "work">>, <<" ", "\n">>}

\* Date lexemes and the instants they denote.
DateTexts == {"T0", "T1", "T2"}

InstantOf(text) == CASE text = "T0" -> 0 [] text = "T1" -> 1 [] text = "T2" -> 2

\* A body with a comment block that holds a start line and an end line, in
\* either order, with what the claim is to find in its ParsedStatusInfo.
WindowBody(pre, g1, k1, a, k2, b, g2, post, startFirst) ==
    LET startLine == <<"start:">> \o k1 \o <<a>>
        endLine == <<"end:">> \o k2 \o <<b>>
        lines == IF startFirst THEN startLine \o <<"\n">> \o endLine
                 ELSE endLine \o <<"\n">> \o startLine
    IN  [body |-> pre \o <<"<!--">> \o g1 \o lines \o g2 \o <<"-->">> \o post,
         start |-> InstantOf(a), end |-> InstantOf(b), pre |-> pre, post |-> post]

WindowBodies ==
    {WindowBody(pre, g1, k1, a, k2, b, g2, post, startFirst) :
        pre \in Prefixes, g1 \in Gaps, k1 \in KeyGaps, a \in DateTexts,
        k2 \in KeyGaps, b \in DateTexts, g2 \in Gaps, post \in Suffixes,
        startFirst \in BOOLEAN}

\* parseIssueBody recovers the window of w.body and leaves the block out.
WindowRecovered(w) ==
    LET info == ParseIssueBody(w.body)
    IN  /\ info.start = Present(ValidDate(w.start))
        /\ info.end = Present(ValidDate(w.end))
        /\ \A i \in 1..Len(info.description) :
             info.description[i] \notin {"<!--", "-->", "start:", "end:"} \cup DateTexts
        /\ info.description = Trim(w.pre \o TrimStart(w.post))

WindowRecoveredOnInputs == \A w \in WindowBodies : WindowRecovered(w)

(* C21: from a body whose comment block holds a start line and an end line *)
(* with date values, parseIssueBody returns both dates as written, and a   *)
(* description without the block and without the white space after it: for *)
(* every body of the input set, and for the fetched maintenance window.    *)
C21_WindowRecovered ==
    /\ WindowRecoveredOnInputs
    /\ \A i \in 1..Len(issues) :
         issues[i] = WindowNotice
         => /\ InfoOf[issues[i]].start = Present(ValidDate(1))
            /\ InfoOf[issues[i]].end = Present(ValidDate(1))
            /\ InfoOf[issues[i]].description = <<"Planned", " ", "work">>

\* The banner presents the maintenance window it parsed from the body.
C21_Witness ==
    /\ PrimaryPresented
    /\ ActiveIssueIn(computed)[1] = WindowNotice
    /\ ParsedInfoIn(computed)[1].start = Present(ValidDate(1))
    /\ ParsedInfoIn(computed)[1].end = Present(ValidDate(1))
    /\ ParsedInfoIn(computed)[1].description = <<"Planned", " ", "work">>

\* Lines with a key the parser does not know: the lexemes of "owner: ops",
\* "weekend: Sat" and "restart: T2".
UnknownLines ==
    {<<"owner:", " ", "ops">>, <<"week", "end:", " ", "Sat">>,
     <<"re", "start:", " ", "T2">>}

\* body with line added to its comment block, as the first or as the last line.
WithLine(body, line, first) ==
    LET cm == CommentMatch(body)
        at == IF first THEN cm[1] ELSE cm[2] - 1
    IN  SubSeq(body, 1, at) \o <<"\n">> \o line \o <<"\n">>
          \o SubSeq(body, at + 1, Len(body))

\* Bodies whose comment block holds some of the four known keys.
KnownKeyBodies ==
    {<<"<!--", "\n">> \o lines \o <<"\n", "-->", "\n", "Planned">> :
        lines \in {<<"start:", " ", "T1", "\n", "end:", " ", "T2">>,
                   <<"end:", " ", "T1">>,
                   <<"expectedDown:", " ", "core-api", "\n", "start:", "T0">>,
                   <<"expectedDegraded:", " ", "base-api", ",", "docs">>}}

\* The four parsed fields of body are those of body with line added.
SameFields(body, line, first) ==
    LET base == ParseIssueBody(body)
        more == ParseIssueBody(WithLine(body, line, first))
    IN  /\ more.start = base.start
        /\ more.end = base.end
        /\ more.expectedDown = base.expectedDown
        /\ more.expectedDegraded = base.expectedDegraded

(* C22: a line with an unknown key, weekend and restart included, added to *)
(* a comment block as its first or its last line leaves start, end,        *)
(* expectedDown and expectedDegraded as they were: for every body of the   *)
(* input set and every fetched body with a comment block.                  *)
C22_UnknownKeysIgnored ==
    /\ \A body \in KnownKeyBodies, line \in UnknownLines, first \in BOOLEAN :
         SameFields(body, line, first)
    /\ \A i \in 1..Len(issues), line \in UnknownLines, first \in BOOLEAN :
         HasCommentBlock(issues[i].body) => SameFields(issues[i].body, line, first)

\* body without its first comment block and the white space right after it,
\* every other lexeme kept.
WithoutBlock(body) ==
    LET cm == CommentMatch(body)
    IN  SubSeq(body, 1, cm[1] - 1) \o TrimStart(SubSeq(body, cm[2] + 1, Len(body)))

(* C23: when a comment block is found, description is the body without the *)
(* first block and the white space right after it, every other lexeme of   *)
(* the body kept, white space at its beginning and its end included: for   *)
(* every body of the input set and every fetched body with a block.        *)
C23_DescriptionKeepsTheRest ==
    /\ \A w \in WindowBodies :
         ParseIssueBody(w.body).description = WithoutBlock(w.body)
    /\ \A i \in 1..Len(issues) :
         HasCommentBlock(issues[i].body)
         => InfoOf[issues[i]].description = WithoutBlock(issues[i].body)

\* Values of an expectedDown or expectedDegraded line: up to MaxLen + 1 lexemes
\* out of names, commas and blanks, one of them at least not a blank.
ValueInputs ==
    {v \in UNION {[1..n -> {"a", "b", ",", " "}] : n \in 1..(MaxLen + 1)} :
        \E i \in 1..Len(v) : v[i] # " "}

\* The positions of the commas of v, and its segments between them, trimmed.
Commas(v) == {i \in 1..Len(v) : v[i] = ","}

Boundary(v, k) ==
    IF k = 0 THEN 0
    ELSE IF k > Cardinality(Commas(v)) THEN Len(v) + 1
    ELSE CHOOSE i \in Commas(v) : Cardinality({j \in Commas(v) : j < i}) = k - 1

Segments(v) ==
    [k \in 1..(Cardinality(Commas(v)) + 1) |->
        Trim(SubSeq(v, Boundary(v, k - 1) + 1, Boundary(v, k) - 1))]

\* The bodies that carry value v on a line of key, alone or before another line.
ListBodies(key, v) ==
    {<<"<!--", "\n", key>> \o gap \o v \o rest \o <<"-->", "Text">> :
        gap \in KeyGaps, rest \in {<<>>, <<"\n">>, <<"\n", "start:", " ", "T1", "\n">>}}

SegmentsOnInputs ==
    \A v \in ValueInputs :
        /\ Len(ServiceList(v)) = Cardinality(Commas(v)) + 1
        /\ \A body \in ListBodies("expectedDown:", v) :
             ParseIssueBody(body).expectedDown = Present(Segments(v))
        /\ \A body \in ListBodies("expectedDegraded:", v) :
             ParseIssueBody(body).expectedDegraded = Present(Segments(v))

(* C24: the list parsed from an expectedDown or expectedDegraded value has *)
(* one element for each segment between commas, in order, trimmed, empty   *)
(* segments kept, so a value with n commas gives n + 1 elements, and a,,b  *)
(* gives a, the empty text and b: for every value of the input set and for *)
(* the fetched maintenance window.                                         *)
C24_ListSegments ==
    /\ SegmentsOnInputs
    /\ ServiceList(<<"a", ",", ",", "b">>) = << <<"a">>, <<>>, <<"b">> >>
    /\ \A i \in 1..Len(issues) :
         issues[i] = WindowNotice
         => InfoOf[issues[i]].expectedDegraded
              = Present(<< <<"base-api">>, <<"license-api">> >>)

\* The banner presents the maintenance window with its two degraded services.
C24_Witness ==
    /\ PrimaryPresented
    /\ ParsedInfoIn(computed)[1].expectedDegraded
         = Present(<< <<"base-api">>, <<"license-api">> >>)
    /\ ParsedInfoIn(computed)[1].expectedDown = Absent

(* C25: the step of the dismiss timer that finds the alert type status     *)
(* stores the id of every notice of the status group, adds no other id to  *)
(* the stored list, and leaves no fetched notice of category status that   *)
(* is not dismissed.                                                       *)
C25_GroupDismissedAsOne ==
    [][(dismissTimers' = dismissTimers - 1 /\ mounted' = mounted
        /\ AlertTypeIn(computed') = "status")
       => LET group == Ids(AllStatusIssuesIn(computed'))
          IN  /\ \A k \in 1..Len(group) : Includes(storage', group[k])
              /\ \A id \in Range(storage') \ Range(storage) : Includes(group, id)
              /\ \A i \in 1..Len(issues) :
                   GetAlertType(issues[i].labels) = "status"
                   => Includes(storage', issues[i].id)]_vars

(* C26: the upcoming treatment of the maintenance notice the banner        *)
(* presents is isUpcoming of that notice at the current instant.           *)
C26_UpcomingNeverStale ==
    (PrimaryPresented /\ AlertTypeIn(computed) = "maintenance"
     /\ ~computed.isMaintenanceUpcoming.dirty)
    => (computed.isMaintenanceUpcoming.value[1] <=> IsUpcoming(ParsedInfoIn(computed)[1]))

(* C27: the banner is never rendered for a notice whose dismissal, started *)
(* by a click on this banner, has been stored.                             *)
C27_DismissedNeverShownAgain ==
    BannerShown
    => \A k \in 1..Len(DismissTargets(computed)) :
           DismissTargets(computed)[k] \notin returned

(* C28: isLoading is true in every state in which a fetch is in flight.    *)
C28_LoadingWhileAnyInFlight == inflight > 0 => isLoading

(* C29: when no fetch is in flight and the fetch that finished last        *)
(* succeeded, error is null.                                               *)
C29_SuccessLeavesNoError ==
    (inflight = 0 /\ lastEvent \in {"items", "no items"}) => error = "null"

(* C30: isActiveSchedule and isUpcoming are never both true of a fetched   *)
(* notice at the same instant.                                             *)
C30_ActiveAndUpcomingExclusive ==
    \A m \in FetchedInfos : ~(IsActiveSchedule(m) /\ IsUpcoming(m))

====
